---------------------------- MODULE Spec2Model ----------------------------
(***************************************************************************)
(* A model of psrdada_filterbankdb: the sigproc header codec and reader    *)
(* (dada_fildb/sigproc.py) and the page assembler and run loop             *)
(* (dada_fildb/dada_fildb.py).                                             *)
(*                                                                         *)
(* Conventions.  A Python str and a Python bytes object are both modelled  *)
(* by their sequence of UTF-8 bytes (integers 0..255), tagged "str" or     *)
(* "bytes".  A C int is a signed 32-bit integer, packed little-endian in   *)
(* two's complement.  A double is modelled by its 8-byte IEEE-754 image.   *)
(* None is the record None.                                                *)
(***************************************************************************)
EXTENDS Integers, Sequences, FiniteSets, TLC

---------------------------------------------------------------------------
(* Values *)

None == [t |-> "None"]
IntV(n) == [t |-> "int", n |-> n]
DblV(img) == [t |-> "double", img |-> img]
StrV(s) == [t |-> "str", s |-> s]
BytesV(s) == [t |-> "bytes", s |-> s]

Min(a, b) == IF a < b THEN a ELSE b

RECURSIVE Cat(_)
Cat(ss) == IF ss = <<>> THEN <<>> ELSE Head(ss) \o Cat(Tail(ss))

Rep(x, n) == [i \in 1..n |-> x]

(* Python's bytes[a:b] for 0 <= a: the bytes at offsets a .. b-1 that exist. *)
Slice(bs, a, b) == SubSeq(bs, a + 1, Min(b, Len(bs)))

---------------------------------------------------------------------------
(* The fixed field table, SigprocFile._type, in its insertion order. *)

TableOrder ==
    << "rawdatafile", "source_name", "machine_id", "barycentric",
       "pulsarcentric", "telescope_id", "src_raj", "src_dej", "az_start",
       "za_start", "data_type", "fch1", "foff", "nchans", "nbeams", "ibeam",
       "nbits", "tstart", "tsamp", "nifs" >>

FieldNames == {TableOrder[i] : i \in 1..Len(TableOrder)}

_type(name) ==
    CASE name \in {"rawdatafile", "source_name"} -> "string"
      [] name \in {"machine_id", "barycentric", "pulsarcentric",
                   "telescope_id", "data_type", "nchans", "nbeams", "ibeam",
                   "nbits", "nifs"} -> "int"
      [] name \in {"src_raj", "src_dej", "az_start", "za_start", "fch1",
                   "foff", "tstart", "tsamp"} -> "double"

(* str.encode() of the names the program uses. *)
Utf8(n) ==
    CASE n = "rawdatafile" -> <<114, 97, 119, 100, 97, 116, 97, 102, 105, 108, 101>>
      [] n = "source_name" -> <<115, 111, 117, 114, 99, 101, 95, 110, 97, 109, 101>>
      [] n = "machine_id" -> <<109, 97, 99, 104, 105, 110, 101, 95, 105, 100>>
      [] n = "barycentric" -> <<98, 97, 114, 121, 99, 101, 110, 116, 114, 105, 99>>
      [] n = "pulsarcentric" -> <<112, 117, 108, 115, 97, 114, 99, 101, 110, 116, 114, 105, 99>>
      [] n = "telescope_id" -> <<116, 101, 108, 101, 115, 99, 111, 112, 101, 95, 105, 100>>
      [] n = "src_raj" -> <<115, 114, 99, 95, 114, 97, 106>>
      [] n = "src_dej" -> <<115, 114, 99, 95, 100, 101, 106>>
      [] n = "az_start" -> <<97, 122, 95, 115, 116, 97, 114, 116>>
      [] n = "za_start" -> <<122, 97, 95, 115, 116, 97, 114, 116>>
      [] n = "data_type" -> <<100, 97, 116, 97, 95, 116, 121, 112, 101>>
      [] n = "fch1" -> <<102, 99, 104, 49>>
      [] n = "foff" -> <<102, 111, 102, 102>>
      [] n = "nchans" -> <<110, 99, 104, 97, 110, 115>>
      [] n = "nbeams" -> <<110, 98, 101, 97, 109, 115>>
      [] n = "ibeam" -> <<105, 98, 101, 97, 109>>
      [] n = "nbits" -> <<110, 98, 105, 116, 115>>
      [] n = "tstart" -> <<116, 115, 116, 97, 114, 116>>
      [] n = "tsamp" -> <<116, 115, 97, 109, 112>>
      [] n = "nifs" -> <<110, 105, 102, 115>>
      [] n = "HEADER_START" -> <<72, 69, 65, 68, 69, 82, 95, 83, 84, 65, 82, 84>>
      [] n = "HEADER_END" -> <<72, 69, 65, 68, 69, 82, 95, 69, 78, 68>>
      [] n = "bogus" -> <<98, 111, 103, 117, 115>>

---------------------------------------------------------------------------
(* struct.pack / struct.unpack *)

(* struct.pack("i", n): four bytes, little-endian two's complement. *)
PackI(n) ==
    LET m == IF n >= 0 THEN n ELSE (n + 2147483647) + 1
        top == (m \div 16777216) + (IF n >= 0 THEN 0 ELSE 128)
    IN  << m % 256, (m \div 256) % 256, (m \div 65536) % 256, top >>

(* struct.unpack("i", b)[0] of exactly four bytes. *)
UnpackI(b) ==
    LET low == b[1] + 256 * b[2] + 65536 * b[3]
    IN  IF b[4] >= 128
          THEN ((low + 16777216 * (b[4] - 128)) - 2147483647) - 1
          ELSE low + 16777216 * b[4]

(* struct.calcsize(datatype) for the first letter of a numeric type name. *)
calcsize(datatype) == IF datatype = "i" THEN 4 ELSE 8

(* self._type[name][0]: the first letter of the type name. *)
TypeLetter(name) ==
    CASE _type(name) = "int" -> "i"
      [] _type(name) = "double" -> "d"
      [] _type(name) = "string" -> "s"

Pack(datatype, val) == IF datatype = "i" THEN PackI(val.n) ELSE val.img

Unpack(datatype, b) == IF datatype = "i" THEN IntV(UnpackI(b)) ELSE DblV(b)

---------------------------------------------------------------------------
(* Encoding: send_string, send_num, send, filterbank_header *)

send_string(val) == PackI(Len(val)) \o val

send_num(name, val) == send_string(Utf8(name)) \o Pack(TypeLetter(name), val)

send(attrs, name) ==
    IF attrs[name] = None THEN <<>>
    ELSE IF _type(name) = "string"
      THEN send_string(Utf8(name)) \o send_string(attrs[name].s)
      ELSE send_num(name, attrs[name])

filterbank_header(attrs) ==
    send_string(Utf8("HEADER_START"))
      \o Cat([i \in 1..Len(TableOrder) |-> send(attrs, TableOrder[i])])
      \o send_string(Utf8("HEADER_END"))

---------------------------------------------------------------------------
(* Decoding: get_string, read_header *)

(* get_string with the bound on the length taken one too low: a string of  *)
(* 80 bytes is refused.                                                    *)
get_string_strict(bs, pos) ==
    IF pos + 4 > Len(bs)
      THEN [err |-> TRUE, s |-> [t |-> "None"], n |-> 0, pos |-> Len(bs)]
      ELSE LET nchar == UnpackI(SubSeq(bs, pos + 1, pos + 4))
           IN  IF nchar >= 80 \/ nchar < 1
                 THEN [err |-> FALSE, s |-> [t |-> "None"], n |-> 0, pos |-> pos + 4]
                 ELSE [err |-> FALSE,
                       s |-> [t |-> "bytes",
                              s |-> SubSeq(bs, pos + 5,
                                           IF pos + 4 + nchar < Len(bs)
                                             THEN pos + 4 + nchar ELSE Len(bs))],
                       n |-> nchar + 4,
                       pos |-> IF pos + 4 + nchar < Len(bs)
                                 THEN pos + 4 + nchar ELSE Len(bs)]

(* get_string(fp) with fp at offset pos of the bytes bs.  err is set when  *)
(* fp.read(4) returns fewer than four bytes (struct.error).                *)
get_string(bs, pos) ==
    IF pos + 4 > Len(bs)
      THEN [err |-> TRUE, s |-> None, n |-> 0, pos |-> Len(bs)]
      ELSE LET nchar == UnpackI(Slice(bs, pos, pos + 4))
           IN  IF nchar > 80 \/ nchar < 1
                 THEN [err |-> FALSE, s |-> None, n |-> 0, pos |-> pos + 4]
                 ELSE [err |-> FALSE,
                       s |-> BytesV(Slice(bs, pos + 4, pos + 4 + nchar)),
                       n |-> nchar + 4,
                       pos |-> Min(pos + 4 + nchar, Len(bs))]

NoAttrs == [k \in FieldNames |-> None]

(* The while loop of read_header (lines 177-192); st is the object so far. *)
RECURSIVE ReadLoop(_, _)
ReadLoop(bs, st) ==
    LET g == get_string(bs, st.pos)
    IN  IF g.err THEN [st EXCEPT !.status = "struct.error", !.pos = g.pos]
        ELSE IF g.s = None
          THEN [st EXCEPT !.status = "AttributeError", !.pos = g.pos]
        ELSE IF g.s.s = Utf8("HEADER_END")
          THEN [st EXCEPT !.status = "ok", !.pos = g.pos,
                          !.hdrbytes = st.hdrbytes + g.n]
        ELSE IF \A k \in FieldNames : Utf8(k) # g.s.s
          THEN [st EXCEPT !.status = "KeyError", !.pos = g.pos,
                          !.hdrbytes = st.hdrbytes + g.n]
        ELSE LET name == CHOOSE k \in FieldNames : Utf8(k) = g.s.s
                 st1 == [st EXCEPT !.pos = g.pos,
                                   !.hdrbytes = st.hdrbytes + g.n]
             IN  IF _type(name) = "string"
                   THEN LET v == get_string(bs, st1.pos)
                        IN  IF v.err
                              THEN [st1 EXCEPT !.status = "struct.error",
                                               !.pos = v.pos]
                              ELSE ReadLoop(bs,
                                     [st1 EXCEPT !.pos = v.pos,
                                                 !.hdrbytes = st1.hdrbytes + v.n,
                                                 !.attrs[name] = v.s])
                   ELSE LET datatype == TypeLetter(name)
                            datasize == calcsize(datatype)
                        IN  IF st1.pos + datasize > Len(bs)
                              THEN [st1 EXCEPT !.status = "struct.error",
                                               !.pos = Len(bs)]
                              ELSE ReadLoop(bs,
                                     [st1 EXCEPT
                                        !.pos = st1.pos + datasize,
                                        !.hdrbytes = st1.hdrbytes + datasize,
                                        !.attrs[name] =
                                           Unpack(datatype,
                                                  Slice(bs, st1.pos,
                                                        st1.pos + datasize))])

(* read_header on the bytes bs: status is "ok" (HEADER_END reached),       *)
(* "nostart" (silent return at line 175) or the exception raised; pos is   *)
(* the file position reached and hdrbytes the attribute.                   *)
read_header(bs) ==
    LET g == get_string(bs, 0)
        st0 == [status |-> "ok", hdrbytes |-> 0, pos |-> g.pos,
                attrs |-> NoAttrs]
    IN  IF g.err THEN [st0 EXCEPT !.status = "struct.error"]
        ELSE IF g.s # BytesV(Utf8("HEADER_START"))
          THEN [st0 EXCEPT !.status = "nostart"]
          ELSE ReadLoop(bs, [st0 EXCEPT !.hdrbytes = g.n])

---------------------------------------------------------------------------
(* Bounds of the model *)

MaxBeams == 2
MaxChans == 2
MaxRec == 2
MaxPageSize == 2
MaxPages == 4
NBufs == 2

---------------------------------------------------------------------------
(* Input files.  A file is described by its damage kind and its geometry;  *)
(* FileBytes gives its bytes on disk.  Every path names a non-empty file   *)
(* or (kind "missing") no file at all.                                     *)

DblOne == <<0, 0, 0, 0, 0, 0, 240, 63>>

(* The data byte at offset j of beam file b: distinct and non-zero. *)
DataByte(b, j) == 16 * b + j + 1

FileAttrs(d) ==
    [NoAttrs EXCEPT !["nchans"] = IntV(d.nchans), !["nbits"] = IntV(d.nbits),
                    !["nifs"] = IntV(1), !["fch1"] = DblV(DblOne),
                    !["foff"] = DblV(DblOne), !["tstart"] = DblV(DblOne),
                    !["tsamp"] = DblV(DblOne)]

(* Bytes in the data region: nrec whole records and, with partial, one     *)
(* more byte of a truncated record.                                        *)
DataLen(d) == d.nrec * ((d.nbits * d.nchans) \div 8) + d.partial

FileBytes(b, d) ==
    LET hdr == filterbank_header(FileAttrs(d))
        data == [j \in 1..DataLen(d) |-> DataByte(b, j - 1)]
        head == SubSeq(hdr, 1, Len(hdr) - 14)
        hend == SubSeq(hdr, Len(hdr) - 13, Len(hdr))
    IN  CASE d.kind = "ok" -> hdr \o data
          [] d.kind = "nostart" -> [hdr EXCEPT ![5] = 88] \o data
          [] d.kind = "unknown" ->
               head \o send_string(Utf8("bogus")) \o PackI(0) \o hend \o data
          [] d.kind = "missing" -> <<>>

FileDescs(c) ==
    {[kind |-> "ok", nchans |-> c, nbits |-> 8, nrec |-> n, partial |-> e] :
        n \in 0..MaxRec, e \in 0..(IF c > 1 THEN 1 ELSE 0)}
    \cup {[kind |-> k, nchans |-> c, nbits |-> 8, nrec |-> 1, partial |-> 0] :
             k \in {"nostart", "unknown", "missing"}}
    \cup {[kind |-> "ok", nchans |-> c, nbits |-> 4, nrec |-> 2, partial |-> 0]}

(* The flip keyed on the lowercase letter instead. *)
ContainsLowerF(order) == order \in {"fT", "ft", "Tf", "tf", "f"}

(* order.upper() == 'FT' and 'F' in order, over the two-letter codes. *)
Orders == {"FT", "fT", "TF", "Tf"}
UpperIsFT(order) == order \in {"FT", "fT", "Ft", "ft"}
ContainsF(order) == order \in {"FT", "Ft", "TF", "tF", "F"}

---------------------------------------------------------------------------
(* numpy arrays of two dimensions: nr rows, nc columns, v[row][column]. *)

Arr(nr, nc, v) == [nr |-> nr, nc |-> nc, v |-> v]
zeros(nr, nc) == Arr(nr, nc, [a \in 1..nr |-> [b \in 1..nc |-> 0]])
transpose(A) == Arr(A.nc, A.nr, [a \in 1..A.nc |-> [b \in 1..A.nr |-> A.v[b][a]]])
(* A[::-1]: the first axis reversed. *)
flip(A) == Arr(A.nr, A.nc, [a \in 1..A.nr |-> A.v[A.nr + 1 - a]])

(* Whether numpy can broadcast src into a target of shape (nr, nc). *)
Broadcastable(src, nr, nc) ==
    /\ src.nr = nr \/ src.nr = 1
    /\ src.nc = nc \/ src.nc = 1

(* dst[:, :ncols] = src, for a broadcastable src. *)
Assign(dst, ncols, src) ==
    Arr(dst.nr, dst.nc,
        [a \in 1..dst.nr |->
           [b \in 1..dst.nc |->
              IF b <= ncols
                THEN src.v[IF src.nr = 1 THEN 1 ELSE a][IF src.nc = 1 THEN 1 ELSE b]
                ELSE dst.v[a][b]]])

---------------------------------------------------------------------------
(* Memory-mapped reader: dtype, bytes_per_spectrum, nspectra, get_data *)

(* The size in bytes of self.dtype; 0 stands for the RuntimeError. *)
ItemSize(nbits) ==
    CASE nbits = 8 -> 1 [] nbits = 16 -> 2 [] nbits = 32 -> 4 [] OTHER -> 0

(* bytes_per_spectrum is nbits * nchans * nifs / 8 in floating point: the  *)
(* model keeps its numerator, the bits of one spectrum.                    *)
BitsPerSpectrum(o) == o.attrs["nbits"].n * o.attrs["nchans"].n * o.attrs["nifs"].n

HasGeometry(o) ==
    /\ o.attrs["nbits"] # None
    /\ o.attrs["nchans"] # None
    /\ o.attrs["nifs"] # None

RECURSIVE LeUnsigned(_)
LeUnsigned(b) == IF b = <<>> THEN 0 ELSE Head(b) + 256 * LeUnsigned(Tail(b))

(* SigprocFile.get_data(nstart, nsamp) of the object o over the bytes bs.  *)
SigGetData(o, bs, nstart, nsamp) ==
    IF ~HasGeometry(o) THEN [err |-> "TypeError", a |-> zeros(0, 0)]
    ELSE
    LET bits == BitsPerSpectrum(o)
        b0 == o.hdrbytes + (nstart * bits) \div 8
        b1 == o.hdrbytes + ((nstart + nsamp) * bits) \div 8
        raw == Slice(bs, b0, b1)
        isz == ItemSize(o.attrs["nbits"].n)
        nchans == o.attrs["nchans"].n
        nifs == o.attrs["nifs"].n
    IN  IF isz = 0 THEN [err |-> "RuntimeError", a |-> zeros(0, 0)]
        ELSE IF Len(raw) % isz # 0 THEN [err |-> "ValueError", a |-> zeros(0, 0)]
        ELSE IF (Len(raw) \div isz) % (nifs * nchans) # 0
          THEN [err |-> "ValueError", a |-> zeros(0, 0)]
        ELSE LET rows == (Len(raw) \div isz) \div (nifs * nchans)
                 item(k) == LeUnsigned(SubSeq(raw, k * isz + 1, k * isz + isz))
             IN  [err |-> "",
                  a |-> Arr(rows, nchans,
                            [r \in 1..rows |->
                               [c \in 1..nchans |->
                                  item((r - 1) * nifs * nchans + (c - 1))]])]

(* Ceiling of the quotient of a by b, b > 0. *)
CeilDiv(a, b) == IF a % b = 0 THEN a \div b ELSE (a \div b) + 1

(* nspectra(): the true (floating-point) quotient of the data bytes by    *)
(* bytes_per_spectrum, kept as the exact fraction num / den.               *)
nspectra(o, size) == [num |-> 8 * (size - o.hdrbytes), den |-> BitsPerSpectrum(o)]

(* int(np.ceil(filterbanks[0].nspectra() / pagesize)) *)
NPageOf(o, size, psize) ==
    LET q == nspectra(o, size) IN CeilDiv(q.num, q.den * psize)

(* Python numbers as unpack handles them: an int, or the float a true      *)
(* division or an operation on a float gives, kept as the fraction         *)
(* num / den.                                                              *)
PyInt(n) == [t |-> "int", num |-> n, den |-> 1]
TrueDiv(x, y) == [t |-> "float", num |-> x.num * y.den, den |-> x.den * y.num]
PyMul(x, y) ==
    [t |-> IF x.t = "int" /\ y.t = "int" THEN "int" ELSE "float",
     num |-> x.num * y.num, den |-> x.den * y.den]
PyAdd(x, y) ==
    [t |-> IF x.t = "int" /\ y.t = "int" THEN "int" ELSE "float",
     num |-> x.num * y.den + y.num * x.den, den |-> x.den * y.den]

(* Whether a number can be a slice index, a dimension or the argument of   *)
(* range: it has __index__, that is, it is an int.                         *)
IsIndex(x) == x.t = "int"

(* self.bytes_per_spectrum, line 213. *)
bytes_per_spectrum(o) == TrueDiv(PyInt(BitsPerSpectrum(o)), PyInt(8))

(* a & b on non-negative integers. *)
RECURSIVE BitAnd(_, _)
BitAnd(a, b) ==
    IF a = 0 \/ b = 0 THEN 0
    ELSE (a % 2) * (b % 2) + 2 * BitAnd(a \div 2, b \div 2)

Pow2(n) == 2 ^ n

(* Arrays of three dimensions, v[i][j][k]. *)
Arr3(n0, n1, n2, v) == [shape |-> <<n0, n1, n2>>, v |-> v]
NoArr == Arr3(0, 0, 0, <<>>)

(* Lines 265-272 of unpack once the bytes are sliced: raw reshaped to      *)
(* (nsamp, nifs, nchans / fac), then for i in range(fac) the masked and    *)
(* shifted bytes stored at unpacked[..., i::fac].                          *)
UnpackBits(raw, nsamp, nifs, nchans, nbits, fac) ==
    LET per == nchans \div fac
        d(r, s, k) == raw[((r - 1) * nifs + (s - 1)) * per + k]
        mask(i) == Pow2(nbits * i) * (Pow2(nbits) - 1)
        val(r, s, c) ==
            LET i == (c - 1) % fac
                k == ((c - 1) \div fac) + 1
            IN  BitAnd(d(r, s, k), mask(i)) \div Pow2(i * nbits)
    IN  IF nchans % fac # 0 \/ Len(raw) # nsamp * nifs * per
          THEN [err |-> "ValueError", a |-> NoArr]
          ELSE [err |-> "",
                a |-> Arr3(nsamp, nifs, nchans,
                           [r \in 1..nsamp |->
                              [s \in 1..nifs |->
                                 [c \in 1..nchans |-> val(r, s, c)]]])]

(* SigprocFile.unpack(nstart, nsamp) of the object o over the bytes bs.    *)
(* For nbits >= 8 it is get_data as floats.  Below 8 bits the slice        *)
(* bounds b0 and b1 come from bytes_per_spectrum and fac from 8 / nbits;   *)
(* a slice bound, a dimension or a range argument that is a float raises   *)
(* TypeError.                                                              *)
unpack(o, bs, nstart, nsamp) ==
    IF ~HasGeometry(o) THEN [err |-> "TypeError", a |-> NoArr]
    ELSE IF o.attrs["nbits"].n >= 8
      THEN LET g == SigGetData(o, bs, nstart, nsamp)
           IN  IF g.err # "" THEN [err |-> g.err, a |-> NoArr]
               ELSE [err |-> "",
                     a |-> Arr3(g.a.nr, 1, g.a.nc,
                                [r \in 1..g.a.nr |-> <<g.a.v[r]>>])]
    ELSE
    LET nbits == o.attrs["nbits"].n
        bstart == PyMul(PyInt(nstart), bytes_per_spectrum(o))
        nbytes == PyMul(PyInt(nsamp), bytes_per_spectrum(o))
        b0 == PyAdd(PyInt(o.hdrbytes), bstart)
        b1 == PyAdd(b0, nbytes)
        fac == TrueDiv(PyInt(8), PyInt(nbits))
    IN  IF ~IsIndex(b0) \/ ~IsIndex(b1) THEN [err |-> "TypeError", a |-> NoArr]
        ELSE IF ~IsIndex(fac) THEN [err |-> "TypeError", a |-> NoArr]
        ELSE UnpackBits(Slice(bs, b0.num \div b0.den, b1.num \div b1.den),
                        nsamp, o.attrs["nifs"].n, o.attrs["nchans"].n, nbits,
                        fac.num \div fac.den)

---------------------------------------------------------------------------
(* Page assembler: create_header, get_data *)

(* Whether create_header raises for the first filterbank: arithmetic on a  *)
(* None field, Time(None), or nspectra() on a zero bytes_per_spectrum.     *)
CreateHeaderRaises(o) ==
    \/ \E k \in {"nchans", "foff", "fch1", "tstart", "nbits", "nifs", "tsamp"} :
          o.attrs[k] = None
    \/ BitsPerSpectrum(o) = 0

(* The integer-valued keys of the header create_header returns. *)
create_header(o, nbeam, psize) ==
    [NCHAN |-> o.attrs["nchans"].n,
     SAMPLES_PER_BATCH |-> psize,
     PADDED_SIZE |-> psize,
     RESOLUTION |-> psize * o.attrs["nchans"].n * nbeam,
     SCIENCE_MODE |-> IF nbeam > 1 THEN 0 ELSE 2]

(* One pass of the loop body of get_data (lines 76-88) for beam i. *)
BeamBlock(o, bs, row, pg, psize, order) ==
    LET g == SigGetData(o, bs, pg * psize, psize)
        t == IF UpperIsFT(order) THEN transpose(g.a) ELSE g.a
        fil_data == IF ContainsF(order) THEN flip(t) ELSE t
    IN  IF g.err # "" THEN [err |-> g.err, a |-> row]
        ELSE IF Broadcastable(fil_data, row.nr, row.nc)
          THEN [err |-> "", a |-> Assign(row, row.nc, fil_data)]
        ELSE IF Broadcastable(fil_data, row.nr, Min(fil_data.nc, row.nc))
          THEN [err |-> "", a |-> Assign(row, Min(fil_data.nc, row.nc), fil_data)]
          ELSE [err |-> "ValueError", a |-> row]

(* get_data(filterbanks, page, pagesize, order): err, or data[beam] of     *)
(* shape (nchans of the first file, pagesize).                             *)
get_data(fbs, bytesOf, pg, psize, order) ==
    LET nchans == fbs[1].attrs["nchans"].n
        blk == [i \in 1..Len(fbs) |->
                  BeamBlock(fbs[i], bytesOf[i], zeros(nchans, psize), pg, psize,
                            order)]
        bad == {i \in 1..Len(fbs) : blk[i].err # ""}
    IN  IF bad = {}
          THEN [err |-> "", data |-> [i \in 1..Len(fbs) |-> blk[i].a]]
          ELSE [err |-> blk[CHOOSE i \in bad : \A j \in bad : i <= j].err,
                data |-> <<>>]

---------------------------------------------------------------------------
(* State *)

VARIABLES
    files,        \* the input files, one description per beam
    pagesize,     \* the pagesize argument
    order,        \* the order argument
    nbuf,         \* the number of pages of the ring buffer (dada_db -n)
    pc,           \* the statement dada_fildb is at
    err,          \* the exception that ended the run, or ""
    filterbanks,  \* the SigprocFile objects appended so far
    fp,           \* per file: "unopened", "open" or "closed" (self.fp)
    mm,           \* per file: "unopened", "open" or "closed" (self._mmdata)
    header,       \* the header set on the writer, <<>> before
    w_conn,       \* the writer: "none", "connected" or "disconnected"
    w_header,     \* the number of setHeader calls
    w_eod,        \* the number of markEndOfData calls
    w_pages,      \* the pages written to ring-buffer pages, in order
    ring,         \* pages in the ring buffer not yet read
    npage,        \* npage of the run loop, -1 before line 115
    page,         \* page of the run loop
    cur,          \* the page get_data returned, not yet copied: <<>> if none
    c_pc,         \* header codec run: the step new_file is at
    c_items,      \* header codec run: the (key, value) items still to set
    c_attrs,      \* header codec run: the attributes of the object
    c_bytes,      \* header codec run: the bytes of the file written
    c_obj,        \* header codec run: what reading the file back gave
    u_pc,         \* unpack run: the step the caller of unpack is at
    u_in,         \* unpack run: the file and the arguments nstart, nsamp
    u_obj,        \* unpack run: the SigprocFile object of the file
    u_out         \* unpack run: what unpack returned or raised

run_vars == <<files, pagesize, order, nbuf, pc, err, filterbanks, fp, mm, header,
              w_conn, w_header, w_eod, w_pages, ring, npage, page, cur>>
codec_vars == <<c_pc, c_items, c_attrs, c_bytes, c_obj>>
unpack_vars == <<u_pc, u_in, u_obj, u_out>>
vars == <<run_vars, codec_vars, unpack_vars>>

writer_vars == <<w_conn, w_header, w_eod, w_pages, ring>>
input_vars == <<files, pagesize, order, nbuf>>

CodecIdle ==
    /\ c_pc = "idle"
    /\ c_items = <<>>
    /\ c_attrs = NoAttrs
    /\ c_bytes = <<>>
    /\ c_obj = [status |-> "none", hdrbytes |-> 0, pos |-> 0, attrs |-> NoAttrs]

UnpackIdle ==
    /\ u_pc = "idle"
    /\ u_in = <<>>
    /\ u_obj = <<>>
    /\ u_out = <<>>

NBeam == Len(files)
BytesOf == [i \in 1..NBeam |-> FileBytes(i, files[i])]

---------------------------------------------------------------------------
(* dada_fildb, statement by statement *)

Init ==
    /\ \E c \in 1..MaxChans :
          files \in UNION {[1..n -> FileDescs(c)] : n \in 1..MaxBeams}
    /\ pagesize \in 1..MaxPageSize
    /\ order \in Orders
    /\ nbuf = NBufs
    /\ pc = "isfile"
    /\ err = ""
    /\ filterbanks = <<>>
    /\ fp = [i \in 1..Len(files) |-> "unopened"]
    /\ mm = [i \in 1..Len(files) |-> "unopened"]
    /\ header = <<>>
    /\ w_conn = "none"
    /\ w_header = 0
    /\ w_eod = 0
    /\ w_pages = <<>>
    /\ ring = 0
    /\ npage = -1
    /\ page = 0
    /\ cur = <<>>
    /\ CodecIdle
    /\ UnpackIdle

Raise(e) == pc' = "aborted" /\ err' = e

(* Lines 94-96: every path must name a file. *)
CheckFiles ==
    /\ pc = "isfile"
    /\ IF \E i \in 1..NBeam : files[i].kind = "missing"
         THEN Raise("OSError")
         ELSE pc' = "open" /\ err' = err
    /\ UNCHANGED <<input_vars, filterbanks, fp, mm, header, writer_vars, npage,
                   page, cur, codec_vars, unpack_vars>>

(* Lines 100-101, one file: SigprocFile(f) opens the file, reads the       *)
(* header and maps the file; an exception in read_header leaves the file   *)
(* object open and unmapped, and no object is appended.                    *)
OpenFile ==
    /\ pc = "open"
    /\ LET i == Len(filterbanks) + 1
           o == read_header(BytesOf[i])
       IN  /\ fp' = [fp EXCEPT ![i] = "open"]
           /\ IF o.status \in {"ok", "nostart"}
                THEN /\ mm' = [mm EXCEPT ![i] = "open"]
                     /\ filterbanks' = Append(filterbanks, o)
                     /\ pc' = IF i = NBeam THEN "create_header" ELSE "open"
                     /\ err' = err
                ELSE /\ Raise(o.status)
                     /\ UNCHANGED <<mm, filterbanks>>
    /\ UNCHANGED <<input_vars, header, writer_vars, npage, page, cur, codec_vars, unpack_vars>>

(* Line 104. *)
CreateHeader ==
    /\ pc = "create_header"
    /\ IF CreateHeaderRaises(filterbanks[1])
         THEN Raise("TypeError") /\ header' = header
         ELSE /\ header' = create_header(filterbanks[1], NBeam, pagesize)
              /\ pc' = "connect"
              /\ err' = err
    /\ UNCHANGED <<input_vars, filterbanks, fp, mm, writer_vars, npage, page,
                   cur, codec_vars, unpack_vars>>

(* Line 107: Writer(key) connects, or raises when there is no ring buffer  *)
(* under the key.                                                          *)
Connect ==
    /\ pc = "connect"
    /\ \E ok \in BOOLEAN :
          IF ok THEN w_conn' = "connected" /\ pc' = "setHeader" /\ err' = err
                ELSE w_conn' = w_conn /\ Raise("PSRDadaError")
    /\ UNCHANGED <<input_vars, filterbanks, fp, mm, header, w_header, w_eod,
                   w_pages, ring, npage, page, cur, codec_vars, unpack_vars>>

(* The run without line 109. *)
SetHeaderSkipped ==
    /\ pc = "setHeader"
    /\ pc' = "npage"
    /\ UNCHANGED <<files, pagesize, order, nbuf, err, filterbanks, fp, mm, header,
                   w_conn, w_header, w_eod, w_pages, ring, npage, page, cur,
                   c_pc, c_items, c_attrs, c_bytes, c_obj, u_pc, u_in, u_obj,
                   u_out>>

(* Line 109. *)
SetHeader ==
    /\ pc = "setHeader"
    /\ w_header' = w_header + 1
    /\ pc' = "npage"
    /\ UNCHANGED <<input_vars, err, filterbanks, fp, mm, header, w_conn, w_eod,
                   w_pages, ring, npage, page, cur, codec_vars, unpack_vars>>

(* Lines 112-116: the delay, then npage and page = 0. *)
ComputeNPage ==
    /\ pc = "npage"
    /\ npage' = NPageOf(filterbanks[1], Len(BytesOf[1]), pagesize)
    /\ page' = 0
    /\ pc' = "next"
    /\ UNCHANGED <<input_vars, err, filterbanks, fp, mm, header, writer_vars,
                   cur, codec_vars, unpack_vars>>

(* Line 117, the iterator stops: end-of-data was marked. *)
WriterStop ==
    /\ pc = "next"
    /\ w_eod > 0
    /\ pc' = "disconnect"
    /\ UNCHANGED <<input_vars, err, filterbanks, fp, mm, header, writer_vars,
                   npage, page, cur, codec_vars, unpack_vars>>

(* Line 117, the iterator yields the next ring-buffer page: it blocks      *)
(* until the ring buffer has a free page.                                  *)
WriterNext ==
    /\ pc = "next"
    /\ w_eod = 0
    /\ ring < nbuf
    /\ page < MaxPages
    /\ pc' = "get_data"
    /\ UNCHANGED <<input_vars, err, filterbanks, fp, mm, header, writer_vars,
                   npage, page, cur, codec_vars, unpack_vars>>

(* The run with a prefetch: the page after this one is assembled too. *)
GetDataPrefetch ==
    /\ pc = "get_data"
    /\ LET g == get_data(filterbanks, BytesOf, page, pagesize, order)
           h == get_data(filterbanks, BytesOf, page + 1, pagesize, order)
       IN  IF g.err # ""
             THEN Raise(g.err) /\ cur' = cur
             ELSE /\ cur' = IF h.err # "" THEN <<g.data>> ELSE <<g.data, h.data>>
                  /\ pc' = "fill"
                  /\ err' = err
    /\ UNCHANGED <<files, pagesize, order, nbuf, filterbanks, fp, mm, header,
                   w_conn, w_header, w_eod, w_pages, ring, npage, page, c_pc,
                   c_items, c_attrs, c_bytes, c_obj, u_pc, u_in, u_obj, u_out>>

(* Line 119, right-hand side: get_data assembles the page. *)
GetData ==
    /\ pc = "get_data"
    /\ LET g == get_data(filterbanks, BytesOf, page, pagesize, order)
       IN  IF g.err # ""
             THEN Raise(g.err) /\ cur' = cur
             ELSE /\ cur' = <<g.data>>
                  /\ pc' = "fill"
                  /\ err' = err
    /\ UNCHANGED <<input_vars, filterbanks, fp, mm, header, writer_vars, npage,
                   page, codec_vars, unpack_vars>>

(* Lines 119-120: the page is copied into the ring-buffer page, page += 1. *)
FillPage ==
    /\ pc = "fill"
    /\ w_pages' = Append(w_pages, [index |-> page, data |-> cur[1],
                                   eod |-> w_eod, hdr |-> w_header])
    /\ ring' = ring + 1
    /\ cur' = <<>>
    /\ page' = page + 1
    /\ pc' = "eod"
    /\ UNCHANGED <<input_vars, err, filterbanks, fp, mm, header, w_conn,
                   w_header, w_eod, npage, codec_vars, unpack_vars>>

(* Lines 122-123. *)
MarkEndOfData ==
    /\ pc = "eod"
    /\ w_eod' = IF page = npage THEN w_eod + 1 ELSE w_eod
    /\ pc' = "next"
    /\ UNCHANGED <<input_vars, err, filterbanks, fp, mm, header, w_conn,
                   w_header, w_pages, ring, npage, page, cur, codec_vars, unpack_vars>>

(* Line 126. *)
Disconnect ==
    /\ pc = "disconnect"
    /\ w_conn' = "disconnected"
    /\ pc' = "close"
    /\ UNCHANGED <<input_vars, err, filterbanks, fp, mm, header, w_header,
                   w_eod, w_pages, ring, npage, page, cur, codec_vars, unpack_vars>>

(* Lines 129-132: f.fp.close() for every filterbank, then return. *)
CloseFiles ==
    /\ pc = "close"
    /\ fp' = [i \in 1..NBeam |-> "closed"]
    /\ pc' = "done"
    /\ UNCHANGED <<input_vars, err, filterbanks, mm, header, writer_vars, npage,
                   page, cur, codec_vars, unpack_vars>>

(* The reader of the ring buffer takes one page (test, lines 116-122). *)
ReaderTakes ==
    /\ ring > 0
    /\ ring' = ring - 1
    /\ UNCHANGED <<input_vars, pc, err, filterbanks, fp, mm, header, w_conn,
                   w_header, w_eod, w_pages, npage, page, cur, codec_vars, unpack_vars>>

Next ==
    \/ CheckFiles
    \/ OpenFile
    \/ CreateHeader
    \/ Connect
    \/ SetHeader
    \/ ComputeNPage
    \/ WriterStop
    \/ WriterNext
    \/ GetData
    \/ FillPage
    \/ MarkEndOfData
    \/ Disconnect
    \/ CloseFiles
    \/ ReaderTakes

Spec == Init /\ [][Next]_vars

(* The same run over ring buffers of every size from one page, for        *)
(* single-channel files and the order "FT".                               *)
RingInit ==
    /\ files \in UNION {[1..n -> FileDescs(1)] : n \in 1..MaxBeams}
    /\ pagesize \in 1..MaxPageSize
    /\ order = "FT"
    /\ nbuf \in 1..NBufs
    /\ pc = "isfile"
    /\ err = ""
    /\ filterbanks = <<>>
    /\ fp = [i \in 1..Len(files) |-> "unopened"]
    /\ mm = [i \in 1..Len(files) |-> "unopened"]
    /\ header = <<>>
    /\ w_conn = "none"
    /\ w_header = 0
    /\ w_eod = 0
    /\ w_pages = <<>>
    /\ ring = 0
    /\ npage = -1
    /\ page = 0
    /\ cur = <<>>
    /\ CodecIdle
    /\ UnpackIdle

RingSpec == RingInit /\ [][Next]_vars

---------------------------------------------------------------------------
(* SigprocFile.new_file, statement by statement, on a path that names no   *)
(* file yet: the header items are set on a fresh object, the header is     *)
(* written, and the file is read back.                                     *)

MaxItems == 2

Str1 == <<65>>
Str80 == Rep(66, 80)
Str81 == Rep(67, 81)

ItemValues(k) ==
    IF k = "bogus" THEN {IntV(1)}
    ELSE CASE _type(k) = "string" ->
                {StrV(Str1), StrV(Str80), StrV(<<>>), StrV(Str81)}
           [] _type(k) = "int" -> {IntV(384), IntV(-1)}
           [] _type(k) = "double" -> {DblV(DblOne)}

ItemKeys == FieldNames \cup {"bogus"}

(* The (key, value) items a header may hold. *)
Items == UNION {{<<k, v>> : v \in ItemValues(k)} : k \in ItemKeys}

(* The headers handed to new_file: up to MaxItems items with distinct      *)
(* keys, in any order.                                                     *)
ItemLists ==
    UNION {{it \in [1..n -> Items] :
              \A a, b \in 1..n : a # b => it[a][1] # it[b][1]} :
           n \in 0..MaxItems}

RunIdle ==
    /\ files = <<>>
    /\ pagesize = 1
    /\ order = "FT"
    /\ nbuf = 1
    /\ pc = "idle"
    /\ err = ""
    /\ filterbanks = <<>>
    /\ fp = <<>>
    /\ mm = <<>>
    /\ header = <<>>
    /\ w_conn = "none"
    /\ w_header = 0
    /\ w_eod = 0
    /\ w_pages = <<>>
    /\ ring = 0
    /\ npage = -1
    /\ page = 0
    /\ cur = <<>>

CodecInit ==
    /\ RunIdle
    /\ c_pc = "new"
    /\ c_items \in ItemLists
    /\ c_attrs = NoAttrs
    /\ c_bytes = <<>>
    /\ c_obj = [status |-> "none", hdrbytes |-> 0, pos |-> 0, attrs |-> NoAttrs]
    /\ UnpackIdle

(* Line 84: SigprocFile(fname) of a path that is no file: every attribute  *)
(* is None.                                                                *)
NewObject ==
    /\ c_pc = "new"
    /\ c_attrs' = NoAttrs
    /\ c_pc' = IF c_items = <<>> THEN "write" ELSE "set"
    /\ UNCHANGED <<unpack_vars, run_vars, c_items, c_bytes, c_obj>>

(* Lines 86-90, one item. *)
SetItem ==
    /\ c_pc = "set"
    /\ LET k == Head(c_items)[1]
           v == Head(c_items)[2]
       IN  IF k \notin FieldNames
             THEN c_pc' = "AssertionError" /\ UNCHANGED <<c_attrs, c_items>>
             ELSE /\ c_attrs' = [c_attrs EXCEPT ![k] = v]
                  /\ c_items' = Tail(c_items)
                  /\ c_pc' = IF Tail(c_items) = <<>> THEN "write" ELSE "set"
    /\ UNCHANGED <<unpack_vars, run_vars, c_bytes, c_obj>>

(* Lines 93-94. *)
WriteHeader ==
    /\ c_pc = "write"
    /\ c_bytes' = filterbank_header(c_attrs)
    /\ c_pc' = "reopen"
    /\ UNCHANGED <<unpack_vars, run_vars, c_items, c_attrs, c_obj>>

(* Line 101: SigprocFile(fname) reads the header back; the object is       *)
(* returned unless read_header raised.                                     *)
Reopen ==
    /\ c_pc = "reopen"
    /\ c_obj' = read_header(c_bytes)
    /\ c_pc' = IF c_obj'.status \in {"ok", "nostart"} THEN "returned" ELSE "raised"
    /\ UNCHANGED <<unpack_vars, run_vars, c_items, c_attrs, c_bytes>>

CodecNext == NewObject \/ SetItem \/ WriteHeader \/ Reopen

CodecSpec == CodecInit /\ [][CodecNext]_vars

---------------------------------------------------------------------------
(* A caller opens one file and calls unpack(nstart, nsamp) on it. *)

(* Sample widths of the files unpacked: the sub-byte widths and one byte. *)
UnpackWidths == {1, 2, 4, 8}

(* Seeds of the data bytes, as the beam index of FileBytes. *)
UnpackSeeds == {1, 6, 13}

(* Files of whole records whose channel count is a multiple of the         *)
(* packing factor.                                                         *)
UnpackFiles ==
    {[kind |-> "ok", nchans |-> k * (8 \div w), nbits |-> w, nrec |-> n,
      partial |-> 0] : k \in 1..MaxChans, w \in UnpackWidths, n \in 0..MaxRec}

UnpackBytes == FileBytes(u_in.seed, u_in.file)

UnpackInit ==
    /\ RunIdle
    /\ CodecIdle
    /\ u_pc = "open"
    /\ u_in \in [seed : UnpackSeeds, file : UnpackFiles, nstart : 0..MaxRec - 1,
                 nsamp : 1..MaxPageSize]
    /\ u_obj = <<>>
    /\ u_out = <<>>

(* SigprocFile(fname), lines 63-73. *)
UnpackOpen ==
    /\ u_pc = "open"
    /\ u_obj' = read_header(UnpackBytes)
    /\ u_pc' = "unpack"
    /\ UNCHANGED <<run_vars, codec_vars, u_in, u_out>>

(* unpack(nstart, nsamp), lines 248-272. *)
UnpackCall ==
    /\ u_pc = "unpack"
    /\ u_out' = unpack(u_obj, UnpackBytes, u_in.nstart, u_in.nsamp)
    /\ u_pc' = IF u_out'.err = "" THEN "returned" ELSE "raised"
    /\ UNCHANGED <<run_vars, codec_vars, u_in, u_obj>>

UnpackNext == UnpackOpen \/ UnpackCall

UnpackSpec == UnpackInit /\ [][UnpackNext]_vars

---------------------------------------------------------------------------
(* What the input files hold, from their descriptions *)

(* Whole records in the data region of a file: the floor of its data       *)
(* bytes over the bytes of one record.                                     *)
WholeRecords(d) == (8 * DataLen(d)) \div (d.nbits * d.nchans)

(* Channel c of record k of beam file b (all counted from 0), for 8-bit    *)
(* samples.                                                                *)
Sample(b, k, c) == DataByte(b, k * files[b].nchans + c)

(* Records a read of pagesize records at page index pg finds in file b. *)
RecordsRead(b, pg) ==
    LET left == WholeRecords(files[b]) - pg * pagesize
    IN  IF left < 0 THEN 0 ELSE Min(left, pagesize)

(* Every page get_data has returned: the pages copied and the one held. *)
Assembled ==
    {[index |-> w_pages[k].index, data |-> w_pages[k].data] : k \in 1..Len(w_pages)}
    \cup (IF cur = <<>> THEN {} ELSE {[index |-> page, data |-> cur[1]]})

HeaderInvalid(d) == d.kind \in {"nostart", "unknown"}
FormatError(d) == HeaderInvalid(d) \/ d.nbits \notin {8, 16, 32}

Ended == pc \in {"done", "aborted"}

---------------------------------------------------------------------------
(* Claims *)

(* C1: a run that does not abort hands the writer exactly                  *)
(* npage = ceil(record_count / pagesize) pages, with page_index 0, 1, ..., *)
(* npage-1 in order, and signals end-of-data exactly once, after the last  *)
(* of them and no earlier, for every record count including zero.          *)
C1_ExactlyNPagesThenEod ==
    LET n == CeilDiv(WholeRecords(files[1]), pagesize)
    IN  /\ Len(w_pages) <= n
        /\ \A k \in 1..Len(w_pages) : w_pages[k].index = k - 1
        /\ w_eod <= 1
        /\ w_eod = 1 => Len(w_pages) = n
        /\ pc = "done" => Len(w_pages) = n /\ w_eod = 1

(* C2: the writer receives the header at most once, exactly once before    *)
(* any page is assembled, filled or pushed; no page is pushed after        *)
(* end-of-data was signalled; disconnect happens only after end-of-data    *)
(* was signalled.                                                          *)
C2_HeaderFirstEodLast ==
    /\ w_header <= 1
    /\ (pc \in {"get_data", "fill", "eod"} \/ w_pages # <<>> \/ cur # <<>>)
          => w_header = 1
    /\ \A k \in 1..Len(w_pages) : w_pages[k].hdr = 1 /\ w_pages[k].eod = 0
    /\ w_conn = "disconnected" => w_eod >= 1
    /\ pc = "done" => w_header = 1 /\ w_conn = "disconnected"

C2_Witness ==
    /\ pc = "done"
    /\ Len(w_pages) >= 2
    /\ w_conn = "disconnected"
    /\ w_eod = 1

(* C3: every page get_data returns has shape (beam_count, n_channels,      *)
(* pagesize); a beam whose read returned r records holds them in time      *)
(* positions [0, r) and zeros in time positions [r, pagesize).             *)
C3_ShapeAndZeroPadding ==
    \A p \in Assembled :
       /\ Len(p.data) = NBeam
       /\ \A b \in 1..NBeam :
             LET r == RecordsRead(b, p.index)
                 nch == files[1].nchans
             IN  /\ p.data[b].nr = nch
                 /\ p.data[b].nc = pagesize
                 /\ \A c \in 0..nch - 1, t \in 0..pagesize - 1 :
                       IF t < r
                         THEN p.data[b].v[c + 1][t + 1]
                                 \in {Sample(b, p.index * pagesize + t, c),
                                      Sample(b, p.index * pagesize + t, nch - 1 - c)}
                         ELSE p.data[b].v[c + 1][t + 1] = 0

(* C4 as stated: the channel axis is reversed iff the order code has the   *)
(* lowercase letter f; for "FT" element (b, c, t) is channel c of record   *)
(* page_index * pagesize + t of beam file b.                               *)
C4_ReversedIffLowerF ==
    \A p \in Assembled :
       order \in {"FT", "fT"} =>
          \A b \in 1..NBeam :
             \A c \in 0..files[1].nchans - 1, t \in 0..RecordsRead(b, p.index) - 1 :
                p.data[b].v[c + 1][t + 1] =
                   Sample(b, p.index * pagesize + t,
                          IF order = "fT" THEN files[1].nchans - 1 - c ELSE c)

(* C4 as amended: for an order code that is "FT" up to case, the channel   *)
(* axis is reversed iff the code has the uppercase letter F: for "FT"      *)
(* element (b, c, t), t below the records read, is channel                 *)
(* n_channels - 1 - c of record page_index * pagesize + t of beam file b,  *)
(* and for "fT" it is channel c.                                           *)
C4_ReversedIffUpperF ==
    \A p \in Assembled :
       order \in {"FT", "fT"} =>
          \A b \in 1..NBeam :
             \A c \in 0..files[1].nchans - 1, t \in 0..RecordsRead(b, p.index) - 1 :
                p.data[b].v[c + 1][t + 1] =
                   Sample(b, p.index * pagesize + t,
                          IF order = "FT" THEN files[1].nchans - 1 - c ELSE c)

C4_Witness ==
    /\ order = "FT"
    /\ files[1].nchans = 2
    /\ pagesize = 2
    /\ \E k \in 1..Len(w_pages) :
         /\ RecordsRead(1, w_pages[k].index) = 2
         /\ w_pages[k].data[1].v[1][2] = Sample(1, w_pages[k].index * 2 + 1, 1)

(* C5: when any input file has a header or format error, the run aborts    *)
(* and neither the header nor any page has reached the writer.             *)
C5_NoPartialOutput ==
    (\E i \in 1..NBeam : FormatError(files[i])) =>
       /\ pc # "done"
       /\ pc = "aborted" => w_header = 0 /\ w_pages = <<>>

(* C6: when the run has ended, by return or by an exception, no file that  *)
(* was opened still holds its handle or its mapping.                       *)
C6_ReleasedOnExit ==
    Ended => \A i \in 1..NBeam : fp[i] # "open" /\ mm[i] # "open"

(* C8: opening a file whose header is invalid (no HEADER_START, or an      *)
(* unknown field name) raises and gives the caller no object.              *)
C8_InvalidHeaderNoObject ==
    \A k \in 1..Len(filterbanks) : ~HeaderInvalid(files[k])

(* C10: nspectra is an integer, the floor of the data bytes over the bytes *)
(* of a record, so the page count of the run loop is                       *)
(* ceil(floor(data_bytes / bytes_per_record) / pagesize).                  *)
C10_FloorRecordCount ==
    npage # -1 =>
       /\ npage = CeilDiv(WholeRecords(files[1]), pagesize)
       /\ LET q == nspectra(filterbanks[1], Len(BytesOf[1]))
          IN  q.num % q.den = 0

---------------------------------------------------------------------------
(* Claims on the header codec *)

(* bytes.decode() of a value read back; other values as they are. *)
Decoded(v) == IF v.t = "bytes" THEN StrV(v.s) ELSE v

ValidValues(attrs) ==
    \A k \in FieldNames :
       attrs[k].t = "str" => Len(attrs[k].s) >= 1 /\ Len(attrs[k].s) <= 80

(* C7: the header read back from the bytes filterbank_header wrote has the *)
(* same present fields with equal values (strings as decoded), and its     *)
(* hdrbytes is the number of bytes written, for valid values.              *)
C7_RoundTrip ==
    (c_pc \in {"returned", "raised"} /\ ValidValues(c_attrs)) =>
       /\ c_pc = "returned"
       /\ c_obj.status = "ok"
       /\ \A k \in FieldNames : Decoded(c_obj.attrs[k]) = c_attrs[k]
       /\ c_obj.hdrbytes = Len(c_bytes)

C7_Witness ==
    /\ c_pc = "returned"
    /\ c_attrs["source_name"] = StrV(Str80)
    /\ c_attrs["nchans"] = IntV(-1)
    /\ c_obj.attrs["source_name"] = BytesV(Str80)
    /\ c_obj.hdrbytes = Len(c_bytes)

(* C9: a length prefix outside [1, 80], where a field name or a string     *)
(* value is read, does not raise, and its four bytes are counted in        *)
(* hdrbytes: hdrbytes is the number of bytes read_header consumed.         *)
C9_BadLengthCountsFour ==
    c_pc \in {"returned", "raised"} =>
       /\ c_obj.status # "AttributeError"
       /\ c_obj.status = "ok" => c_obj.hdrbytes = c_obj.pos

---------------------------------------------------------------------------
(* Claims on unpack *)

(* Sub-sample i of a packed byte of the given width. *)
SubSample(byte, i, bits) == (byte \div Pow2(i * bits)) % Pow2(bits)

(* The packed byte k (from 0) of record r (from 0) of the file unpacked. *)
PackedByte(r, k) ==
    LET d == u_in.file
    IN  DataByte(u_in.seed, r * ((d.nbits * d.nchans) \div 8) + k)

(* C11: for 1, 2 and 4 bits per sample, with fac = 8 / bits, unpack of     *)
(* records the file holds returns a (count, subbands, n_channels) block    *)
(* in which channel j of each record is sub-sample j mod fac of packed     *)
(* byte j div fac of that record.                                          *)
C11_UnpackSubByte ==
    LET d == u_in.file
        fac == 8 \div d.nbits
    IN  (/\ u_pc \in {"returned", "raised"}
         /\ d.nbits \in {1, 2, 4}
         /\ u_in.nstart + u_in.nsamp <= d.nrec) =>
           /\ u_pc = "returned"
           /\ u_out.a.shape = <<u_in.nsamp, 1, d.nchans>>
           /\ \A r \in 1..u_in.nsamp, j \in 0..d.nchans - 1 :
                 u_out.a.v[r][1][j + 1] =
                    SubSample(PackedByte(u_in.nstart + r - 1, j \div fac),
                              j % fac, d.nbits)

---------------------------------------------------------------------------
(* Claims on the cadence of the run loop *)

(* C12: with the iterator blocking until the ring buffer has a free page,  *)
(* the run holds at most one page assembled and not yet copied to the      *)
(* writer: a page is assembled only when every page before it has been     *)
(* copied, and the ring buffer never holds more pages than it has.         *)
C12_AtMostOnePageAhead ==
    /\ Len(cur) <= 1
    /\ cur # <<>> => Len(w_pages) = page
    /\ pc = "get_data" => cur = <<>> /\ Len(w_pages) = page
    /\ ring <= nbuf

C12_Witness ==
    /\ nbuf = 1
    /\ pc = "fill"
    /\ Len(cur) = 1
    /\ page >= 2
    /\ Len(w_pages) = page
    /\ ring = 0

=============================================================================
